---- MODULE Spec2Model ----
(***************************************************************************)
(* PeercoinRPC (src/src/PeercoinRPC.ts): the retry executor cmdWithRetry,   *)
(* the decode layer cmdWithRetryAndDecode on top of it, and the public      *)
(* operations that go through both (sendRawTransaction, sendToAddress,      *)
(* getBlockchainInfo, ancientGetInfo, isReady).                             *)
(*                                                                         *)
(* Every invocation is an async call chain.  It suspends at two places      *)
(* only: `await this.cmd(...)` (a transport request is in flight) and       *)
(* `await delay(...)`.  One action is one run of the chain from one         *)
(* suspension to the next, or to the settling of the outermost promise.     *)
(***************************************************************************)
EXTENDS Integers, Sequences, FiniteSets, TLC

\* ---------------------------------------------------------------- constants
MAX_ATTEMPTS == 5
DELAY_BETWEEN_ATTEMPTS == 5000

\* ------------------------------------------------------------------- bounds
\* Distinct payloads a transport result may carry.
NumPayloads == 2
\* Distinct raw transactions a caller may submit.
NumHex == 2

\* --------------------------------------------------------------- data model
\* The classifier's verdict for one failed attempt.  In the code it is the
\* value of `executed`: true, false, or anything else (null / undefined).
ExecutionStates == {"executed", "not-executed", "unknown"}

\* A transport error, reduced to what the two helpers of ./utils read off it:
\* the classifier's verdict and whether the retry policy calls it retryable.
TransportErrors == [effect : ExecutionStates, transient : BOOLEAN]

\* Result shapes: one per decoder, so that a result of another decoder's
\* shape is a result the decoder in use rejects.
Decoders ==
  {"SendRawTransactionResultDecoder", "SendToAddressResultDecoder",
   "GetBlockchainInfoResultDecoder", "AncientGetInfoResultDecoder"}

\* Raw results the transport may return.
Results == [type : Decoders, payload : 1..NumPayloads]

Undefined == [type |-> "undefined", payload |-> 0]
True == [type |-> "boolean", payload |-> 1]
False == [type |-> "boolean", payload |-> 0]

Hexes == 1..NumHex

\* An optional argument the caller left out (undefined in the code).
Unsupplied == "unsupplied"

\* The optional arguments of sendToAddress, as the caller may pass them:
\* comment, commentTo, subtractFeeFromAmount, replaceable.
SendToAddressOptionals ==
  [comment : {Unsupplied, "", "rent"}, commentTo : {Unsupplied, "", "bob"},
   subtractFeeFromAmount : {Unsupplied, "true", "false"},
   replaceable : {Unsupplied, "true", "false"}]

NoCause == [effect |-> "n/a", transient |-> FALSE]
NoData ==
  [method |-> "", params |-> <<>>, methodIsPure |-> FALSE, maxAttempts |-> 0,
   attempts |-> 0]
NoError == [name |-> "none", cause |-> NoCause, executed |-> "n/a", data |-> NoData]

\* How a promise stands: pending, resolved with a value, rejected with an error.
Pending == [kind |-> "pending", value |-> Undefined, error |-> NoError]
Returned(v) == [kind |-> "returned", value |-> v, error |-> NoError]
Threw(e) == [kind |-> "threw", value |-> Undefined, error |-> e]

\* -------------------------------------------------------- ./utils (imported)
PURE_METHODS == {"getinfo", "getblockchaininfo"}

getWasExecutedFromError(m, error) == error.effect

getShouldRetry(m, error) == error.transient

\* iotsDecode(decoder, result): the validated value, unchanged in content, or
\* a decoding error when the shape does not match.
iotsDecode(decoder, result) ==
  IF result.type = decoder
    THEN Returned(result)
    ELSE Threw([name |-> "DecodeError", cause |-> NoCause, executed |-> "n/a",
                data |-> NoData])

\* new PeercoinRPCError(error, executed, data)
PeercoinRPCError(error, executed, data) ==
  [name |-> "PeercoinRPCError", cause |-> error, executed |-> executed,
   data |-> data]

\* -------------------------------------------------------------------- state
VARIABLES
  options,       \* this.options, set by the constructor
  pc,            \* where each invocation is suspended
  api,           \* the public operation invoked
  args,          \* the arguments the public operation was invoked with
  decoder,       \* the decoder cmdWithRetryAndDecode was given
  method,        \* cmdWithRetry's method
  params,        \* cmdWithRetry's params
  methodIsPure,  \* cmdWithRetry's methodIsPure
  attemptN,      \* attemptN of the innermost attempt() running
  requests,      \* the requests handed to the transport, in order
  delays,        \* the delays started, in order, in ms
  log,           \* what debug(`Command failed ...`) was given, in order
  response,      \* the result the transport returned, if it returned one
  retryOutcome,  \* cmdWithRetry's promise
  decodes,       \* number of iotsDecode calls
  decodeOutcome, \* cmdWithRetryAndDecode's promise
  outcome        \* the public operation's promise

vars ==
  <<options, pc, api, args, decoder, method, params, methodIsPure, attemptN,
    requests, delays, log, response, retryOutcome, decodes, decodeOutcome,
    outcome>>

Invocations == DOMAIN pc

maxAttempts == MAX_ATTEMPTS

\* ---------------------------------------------------------- public surface
Apis == {"sendRawTransaction", "getBlockchainInfo", "ancientGetInfo", "isReady"}

\* value ?? fallback
Coalesce(value, fallback) == IF value = Unsupplied THEN fallback ELSE value

\* if (value), for a string argument
Truthy(value) == value # Unsupplied /\ value # ""

\* The optional parameters sendToAddress pushes after [address, amount].
sendToAddressOptionalParams(o) ==
  IF o.replaceable # Unsupplied
    THEN <<Coalesce(o.comment, ""), Coalesce(o.commentTo, ""),
           Coalesce(o.subtractFeeFromAmount, "false"), o.replaceable>>
  ELSE IF o.subtractFeeFromAmount # Unsupplied
    THEN <<Coalesce(o.comment, ""), Coalesce(o.commentTo, ""),
           o.subtractFeeFromAmount>>
  ELSE IF o.commentTo # Unsupplied
    THEN <<Coalesce(o.comment, ""), o.commentTo>>
  ELSE IF Truthy(o.commentTo)
    THEN <<o.comment>>
  ELSE <<>>

sendToAddress(address, amount, o) ==
  [decoder |-> "SendToAddressResultDecoder", method |-> "sendtoaddress",
   params |-> <<address, amount>> \o sendToAddressOptionalParams(o)]

sendRawTransaction(hex) ==
  [decoder |-> "SendRawTransactionResultDecoder", method |-> "sendrawtransaction",
   params |-> <<hex>>]

getBlockchainInfo ==
  [decoder |-> "GetBlockchainInfoResultDecoder", method |-> "getblockchaininfo",
   params |-> <<>>]

ancientGetInfo ==
  [decoder |-> "AncientGetInfoResultDecoder", method |-> "getinfo",
   params |-> <<>>]

\* The call isReady awaits inside its try block.
isReadyCall == IF options.ancient = "true" THEN ancientGetInfo ELSE getBlockchainInfo

\* The cmdWithRetryAndDecode call a public operation makes.
ApiCall(a, hex) ==
  CASE a = "sendRawTransaction" -> sendRawTransaction(hex)
    [] a = "getBlockchainInfo" -> getBlockchainInfo
    [] a = "ancientGetInfo" -> ancientGetInfo
    [] a = "isReady" -> isReadyCall

isReadyRethrows(inner) == IF inner.kind = "returned" THEN Returned(True) ELSE inner

\* isReady's try/catch around the call: true when it resolved, false when it
\* rejected, whatever the error.
isReady(inner) == IF inner.kind = "returned" THEN Returned(True) ELSE Returned(False)

\* What the public operation a settles with, given how its
\* cmdWithRetryAndDecode call settled.
ApiSettle(a, inner) == IF a = "isReady" THEN isReady(inner) ELSE inner

\* ------------------------------------------------------------ cmdWithRetry
\* this.cmd(method, ...params): one request handed to the transport.
cmd(i, m, ps) == requests' = [requests EXCEPT ![i] = Append(@, [method |-> m, params |-> ps])]

getErrrorDataZeroBased(i) ==
  [method |-> method[i], params |-> params[i], methodIsPure |-> methodIsPure[i],
   maxAttempts |-> maxAttempts, attempts |-> attemptN[i] - 1]

getErrrorData(i) ==
  [method |-> method[i], params |-> params[i], methodIsPure |-> methodIsPure[i],
   maxAttempts |-> maxAttempts, attempts |-> attemptN[i]]

delayBackoff(i, ms) == delays' = [delays EXCEPT ![i] = Append(@, ms * attemptN[i])]

\* delay(ms): one delay started.
delay(i, ms) == delays' = [delays EXCEPT ![i] = Append(@, ms)]

\* Variants of the definitions below, each changed the way a slip in the
\* code would change it; the properties at the end are checked to tell them
\* from the code.
hadEffectsInverted(pure, executed) == ~pure /\ executed = "not-executed"

hadEffectsOnlyExecuted(pure, executed) == ~pure /\ executed = "executed"

hadEffectsWhateverPurity(pure, executed) == executed # "not-executed"

hadEffects(pure, executed) == ~pure /\ executed # "not-executed"

shouldRetryIgnoresEffects(effects, m, error) == getShouldRetry(m, error)

shouldRetry(effects, m, error) == ~effects /\ getShouldRetry(m, error)

ExhaustedNever(n) == FALSE

ExhaustedOffByOne(n) == n = maxAttempts + 1

ExhaustedEarly(n) == n >= maxAttempts - 1

\* if (attemptN === maxAttempts)
Exhausted(n) == n = maxAttempts

RetriesAlways(n, retry) == ~Exhausted(n)

\* Whether the catch block of attempt number n goes on to attempt n + 1
\* (it throws otherwise), `retry` being its shouldRetry.
Retries(n, retry) == ~Exhausted(n) /\ retry

TerminalErrorFirstVerdict(i, error, executed) ==
  PeercoinRPCError(error, IF log[i] = <<>> THEN executed ELSE log[i][1].executed,
                   getErrrorData(i))

TerminalErrorFirstCause(i, error, executed) ==
  PeercoinRPCError(IF log[i] = <<>> THEN error ELSE log[i][1].error, executed,
                   getErrrorData(i))

TerminalErrorSharedCounter(i, error, executed) ==
  LET j == CHOOSE j \in Invocations : \A k \in Invocations : attemptN[j] >= attemptN[k]
  IN PeercoinRPCError(error, executed, [getErrrorData(i) EXCEPT !.attempts = attemptN[j]])

\* The error attempt() throws: thrown at either throw site of the catch block.
TerminalError(i, error, executed) == PeercoinRPCError(error, executed, getErrrorData(i))

AttemptReturnDropped(n, result) == IF n = 1 THEN result ELSE Undefined

\* What the outermost attempt() resolves with when attempt number n got
\* `result` from the transport: every level returns the level below.
AttemptReturn(n, result) == result

\* ---------------------------------------------------- cmdWithRetryAndDecode
DecodeFailureUntagged(error) == error

\* catch (error) { throw Object.assign(error, { executed: true }) }
DecodeFailure(error) == [error EXCEPT !.executed = "executed"]

DecodeSkippedTagged(failed) == Threw([failed.error EXCEPT !.executed = "executed"])

\* `await this.cmdWithRetry(...)` stands before the try block: when it
\* rejects, cmdWithRetryAndDecode rejects with the same error.
DecodeSkipped(failed) == failed

\* The part of cmdWithRetryAndDecode after `await this.cmdWithRetry(...)`
\* resolved with `result`.
Decode(dec, result) ==
  LET decoded == iotsDecode(dec, result) IN
  IF decoded.kind = "returned" THEN decoded ELSE Threw(DecodeFailure(decoded.error))

\* --------------------------------------------------------------------- Init
InitOf(ids) ==
  /\ options \in [ancient : {"true", "false", "undefined"}]
  /\ pc = [i \in ids |-> "idle"]
  /\ api = [i \in ids |-> ""]
  /\ args = [i \in ids |-> <<>>]
  /\ decoder = [i \in ids |-> ""]
  /\ method = [i \in ids |-> ""]
  /\ params = [i \in ids |-> <<>>]
  /\ methodIsPure = [i \in ids |-> FALSE]
  /\ attemptN = [i \in ids |-> 0]
  /\ requests = [i \in ids |-> <<>>]
  /\ delays = [i \in ids |-> <<>>]
  /\ log = [i \in ids |-> <<>>]
  /\ response = [i \in ids |-> Undefined]
  /\ retryOutcome = [i \in ids |-> Pending]
  /\ decodes = [i \in ids |-> 0]
  /\ decodeOutcome = [i \in ids |-> Pending]
  /\ outcome = [i \in ids |-> Pending]

Init == InitOf({1})

\* ------------------------------------------------------------------ actions
\* A caller invokes public operation a: the chain runs synchronously down to
\* attempt(1), which hands the first request to the transport and suspends.
Start(i, a, hex) ==
  /\ pc[i] = "idle"
  /\ LET call == ApiCall(a, hex) IN
       /\ api' = [api EXCEPT ![i] = a]
       /\ args' = [args EXCEPT ![i] = IF a = "sendRawTransaction" THEN <<hex>> ELSE <<>>]
       /\ decoder' = [decoder EXCEPT ![i] = call.decoder]
       /\ method' = [method EXCEPT ![i] = call.method]
       /\ params' = [params EXCEPT ![i] = call.params]
       /\ methodIsPure' = [methodIsPure EXCEPT ![i] = call.method \in PURE_METHODS]
       /\ cmd(i, call.method, call.params)
  /\ attemptN' = [attemptN EXCEPT ![i] = 1]
  /\ pc' = [pc EXCEPT ![i] = "transport"]
  /\ UNCHANGED <<options, delays, log, response, retryOutcome, decodes,
                 decodeOutcome, outcome>>

\* A caller invokes sendToAddress(address, amount, ...optionals).
StartSendToAddress(i, address, amount, o) ==
  /\ pc[i] = "idle"
  /\ LET call == sendToAddress(address, amount, o) IN
       /\ api' = [api EXCEPT ![i] = "sendToAddress"]
       /\ args' = [args EXCEPT ![i] = <<address, amount, o>>]
       /\ decoder' = [decoder EXCEPT ![i] = call.decoder]
       /\ method' = [method EXCEPT ![i] = call.method]
       /\ params' = [params EXCEPT ![i] = call.params]
       /\ methodIsPure' = [methodIsPure EXCEPT ![i] = call.method \in PURE_METHODS]
       /\ cmd(i, call.method, call.params)
  /\ attemptN' = [attemptN EXCEPT ![i] = 1]
  /\ pc' = [pc EXCEPT ![i] = "transport"]
  /\ UNCHANGED <<options, delays, log, response, retryOutcome, decodes,
                 decodeOutcome, outcome>>

\* The transport returns `result`: attempt() returns it, cmdWithRetry
\* resolves, cmdWithRetryAndDecode decodes, the public operation settles.
TransportReturns(i, result) ==
  /\ pc[i] = "transport"
  /\ response' = [response EXCEPT ![i] = result]
  /\ LET got == AttemptReturn(attemptN[i], result)
         decoded == Decode(decoder[i], got)
     IN /\ retryOutcome' = [retryOutcome EXCEPT ![i] = Returned(got)]
        /\ decodes' = [decodes EXCEPT ![i] = @ + 1]
        /\ decodeOutcome' = [decodeOutcome EXCEPT ![i] = decoded]
        /\ outcome' = [outcome EXCEPT ![i] = ApiSettle(api[i], decoded)]
  /\ pc' = [pc EXCEPT ![i] = "done"]
  /\ UNCHANGED <<options, api, args, decoder, method, params, methodIsPure,
                 attemptN, requests, delays, log>>

\* The transport fails with `error`: the catch block of attempt().
TransportFails(i, error) ==
  /\ pc[i] = "transport"
  /\ LET executed == getWasExecutedFromError(method[i], error)
         effects == hadEffects(methodIsPure[i], executed)
         retry == shouldRetry(effects, method[i], error)
         failed == Threw(TerminalError(i, error, executed))
     IN /\ log' = [log EXCEPT ![i] =
                     Append(@, [error |-> error, executed |-> executed,
                                attemptN |-> attemptN[i], hadEffects |-> effects,
                                shouldRetry |-> retry])]
        /\ IF Retries(attemptN[i], retry)
             THEN /\ delay(i, DELAY_BETWEEN_ATTEMPTS)
                  /\ pc' = [pc EXCEPT ![i] = "delay"]
                  /\ UNCHANGED <<retryOutcome, decodeOutcome, outcome>>
             ELSE /\ retryOutcome' = [retryOutcome EXCEPT ![i] = failed]
                  /\ decodeOutcome' = [decodeOutcome EXCEPT ![i] = DecodeSkipped(failed)]
                  /\ outcome' = [outcome EXCEPT ![i] =
                                   ApiSettle(api[i], DecodeSkipped(failed))]
                  /\ pc' = [pc EXCEPT ![i] = "done"]
                  /\ UNCHANGED delays
  /\ UNCHANGED <<options, api, args, decoder, method, params, methodIsPure,
                 attemptN, requests, response, decodes>>

\* The delay elapses: attempt(attemptN + 1) hands the next request to the
\* transport and suspends.
DelayElapses(i) ==
  /\ pc[i] = "delay"
  /\ attemptN' = [attemptN EXCEPT ![i] = @ + 1]
  /\ cmd(i, method[i], params[i])
  /\ pc' = [pc EXCEPT ![i] = "transport"]
  /\ UNCHANGED <<options, api, args, decoder, method, params, methodIsPure,
                 delays, log, response, retryOutcome, decodes, decodeOutcome,
                 outcome>>

Next ==
  \/ \E i \in Invocations, a \in Apis, hex \in Hexes : Start(i, a, hex)
  \/ \E i \in Invocations, o \in SendToAddressOptionals :
       StartSendToAddress(i, "addr", "1.5", o)
  \/ \E i \in Invocations, result \in Results : TransportReturns(i, result)
  \/ \E i \in Invocations, error \in TransportErrors : TransportFails(i, error)
  \/ \E i \in Invocations : DelayElapses(i)

Spec == Init /\ [][Next]_vars

\* The invocation of Spec.
Single == {1}

\* The transport settles the request in flight, one way or the other.
TransportSettles(i) ==
  \/ \E result \in Results : TransportReturns(i, result)
  \/ \E error \in TransportErrors : TransportFails(i, error)

\* Spec, with every transport request eventually settled and every delay
\* eventually elapsed.
FairSpec ==
  Spec /\ \A i \in Single : WF_vars(TransportSettles(i)) /\ WF_vars(DelayElapses(i))

\* Two invocations in flight on the same client at the same time.
Concurrent == {1, 2}

\* The transport errors and results the concurrent invocations are given:
\* one error of each classifier verdict, and for each operation a result its
\* decoder accepts and one it rejects.
ConcurrentErrors ==
  {[effect |-> "not-executed", transient |-> TRUE],
   [effect |-> "executed", transient |-> TRUE],
   [effect |-> "unknown", transient |-> FALSE]}

ConcurrentResults ==
  {r \in Results :
     /\ r.payload = 1
     /\ r.type \in {"SendRawTransactionResultDecoder", "GetBlockchainInfoResultDecoder"}}

ConcurrentApis == {"sendRawTransaction", "getBlockchainInfo"}

InitConcurrent == InitOf(Concurrent)

NextConcurrent ==
  \/ \E i \in Invocations, a \in ConcurrentApis, hex \in Hexes : Start(i, a, hex)
  \/ \E i \in Invocations, result \in ConcurrentResults : TransportReturns(i, result)
  \/ \E i \in Invocations, error \in ConcurrentErrors : TransportFails(i, error)
  \/ \E i \in Invocations : DelayElapses(i)

SpecConcurrent == InitConcurrent /\ [][NextConcurrent]_vars

\* --------------------------------------------------------------- properties
Last(s) == s[Len(s)]

\* Failed attempt number k of invocation i, as the catch block saw it.
Failure(i, k) == log[i][k]

\* The retry policy's verdict on the error of failed attempt k.
Transient(i, k) == getShouldRetry(method[i], Failure(i, k).error)

\* The classifier's verdict on the error of failed attempt k.
Verdict(i, k) == getWasExecutedFromError(method[i], Failure(i, k).error)

\* cmdWithRetry failed, at attempt number k.
FailedAt(i, k) ==
  /\ pc[i] = "done"
  /\ retryOutcome[i].kind = "threw"
  /\ retryOutcome[i].error.name = "PeercoinRPCError"
  /\ retryOutcome[i].error.data.attempts = k

\* Failed attempt k was absorbed: its delay was started, and the invocation
\* is in that delay or has made transport call k + 1.
AbsorbedAt(i, k) ==
  /\ Len(delays[i]) >= k
  /\ delays[i][k] = DELAY_BETWEEN_ATTEMPTS
  /\ \/ pc[i] = "delay" /\ attemptN[i] = k /\ Len(requests[i]) = k
     \/ Len(requests[i]) >= k + 1

\* C1: no invocation of cmdWithRetry ever makes more than maxAttempts (5)
\* transport calls, whatever the method and whatever the transport, the
\* classifier and the retry policy answer.
C1_AtMostMaxAttempts ==
  \A i \in Invocations : Len(requests[i]) <= MAX_ATTEMPTS

C1_Witness ==
  \E i \in Invocations :
    /\ Len(requests[i]) = MAX_ATTEMPTS
    /\ FailedAt(i, MAX_ATTEMPTS)
    /\ Transient(i, MAX_ATTEMPTS)
    /\ ~Failure(i, MAX_ATTEMPTS).hadEffects

\* C2: for a non-pure method, a failed attempt k whose classifier verdict is
\* 'executed' is the last one: no call k + 1 is made, and the invocation
\* fails at k with a terminal error whose execution state is 'executed' and
\* whose attempts field is k.
C2_ExecutedStopsNonPure ==
  \A i \in Invocations : \A k \in 1..Len(log[i]) :
    (~methodIsPure[i] /\ Verdict(i, k) = "executed") =>
      /\ k = Len(log[i])
      /\ Len(requests[i]) = k
      /\ FailedAt(i, k)
      /\ retryOutcome[i].error.executed = "executed"

C2_Witness ==
  \E i \in Invocations :
    /\ ~methodIsPure[i]
    /\ Len(log[i]) = 2
    /\ Verdict(i, 2) = "executed"
    /\ Transient(i, 2)
    /\ FailedAt(i, 2)

\* C3 as claimed: for every method, pure or not, a failed attempt k whose
\* classifier verdict is 'executed' is never followed by transport call k + 1.
C3_ExecutedStopsAnyMethod ==
  \A i \in Invocations : \A k \in 1..Len(log[i]) :
    Verdict(i, k) = "executed" => Len(requests[i]) <= k

\* C3 as amended: a failed attempt k whose classifier verdict is 'executed'
\* is never followed by transport call k + 1 when the method is not pure;
\* when the method is pure, call k + 1 follows exactly when the retry policy
\* calls the error retryable and k < maxAttempts.
C3_ExecutedStopsUnlessPure ==
  \A i \in Invocations : \A k \in 1..Len(log[i]) :
    Verdict(i, k) = "executed" =>
      IF methodIsPure[i] /\ Transient(i, k) /\ k < MAX_ATTEMPTS
        THEN AbsorbedAt(i, k)
        ELSE Len(requests[i]) <= k /\ FailedAt(i, k)

C3_Witness ==
  \E i \in Invocations :
    /\ methodIsPure[i]
    /\ Len(log[i]) >= 1
    /\ Verdict(i, 1) = "executed"
    /\ Len(requests[i]) = 2

\* C4: for a non-pure method, a failed attempt k whose classifier verdict is
\* 'unknown' ends the invocation at k: no delay is started for it and no call
\* k + 1 is made, also when the retry policy calls the error retryable.
C4_UnknownStopsNonPure ==
  \A i \in Invocations : \A k \in 1..Len(log[i]) :
    (~methodIsPure[i] /\ Verdict(i, k) = "unknown") =>
      /\ k = Len(log[i])
      /\ Len(requests[i]) = k
      /\ Len(delays[i]) = k - 1
      /\ FailedAt(i, k)

C4_Witness ==
  \E i \in Invocations :
    /\ ~methodIsPure[i]
    /\ Len(log[i]) = 2
    /\ Verdict(i, 2) = "unknown"
    /\ Transient(i, 2)
    /\ FailedAt(i, 2)

\* C5: a pure method all of whose attempts failed with a retryable error has
\* made exactly maxAttempts (5) transport calls and started exactly
\* maxAttempts - 1 (4) delays when it fails, and its terminal error carries
\* attempts = maxAttempts = 5.
C5_PureTransientExhausts ==
  \A i \in Invocations :
    ( /\ methodIsPure[i]
      /\ pc[i] = "done"
      /\ retryOutcome[i].kind = "threw"
      /\ \A k \in 1..Len(log[i]) : Transient(i, k) ) =>
      /\ Len(requests[i]) = MAX_ATTEMPTS
      /\ Len(log[i]) = MAX_ATTEMPTS
      /\ Len(delays[i]) = MAX_ATTEMPTS - 1
      /\ \A d \in 1..Len(delays[i]) : delays[i][d] = DELAY_BETWEEN_ATTEMPTS
      /\ retryOutcome[i].error.data.attempts = MAX_ATTEMPTS
      /\ retryOutcome[i].error.data.maxAttempts = MAX_ATTEMPTS

C5_Witness ==
  \E i \in Invocations :
    /\ methodIsPure[i]
    /\ api[i] = "getBlockchainInfo"
    /\ FailedAt(i, MAX_ATTEMPTS)
    /\ \A k \in 1..Len(log[i]) : Transient(i, k) /\ Verdict(i, k) = "not-executed"

\* C6: for a non-pure method, a failed attempt k < maxAttempts with a
\* retryable error and the verdict 'not-executed' is absorbed: one delay is
\* started and transport call k + 1 follows it; and when a transport call
\* succeeds, at whatever attempt, cmdWithRetry resolves with the result of
\* that call and no error.
C6_NotExecutedRetried ==
  \A i \in Invocations :
    ~methodIsPure[i] =>
      /\ \A k \in 1..Len(log[i]) :
           (k < MAX_ATTEMPTS /\ Transient(i, k) /\ Verdict(i, k) = "not-executed")
             => AbsorbedAt(i, k)
      /\ response[i] # Undefined =>
           /\ retryOutcome[i] = Returned(response[i])
           /\ Len(requests[i]) = Len(log[i]) + 1
           /\ Len(delays[i]) = Len(log[i])

C6_Witness ==
  \E i \in Invocations :
    /\ api[i] = "sendRawTransaction"
    /\ Len(log[i]) = MAX_ATTEMPTS - 1
    /\ Len(requests[i]) = MAX_ATTEMPTS
    /\ response[i] \in Results
    /\ outcome[i] = Returned(response[i])

\* C7: whenever cmdWithRetry fails, by exhaustion or because retry is
\* forbidden, the execution state its terminal error carries is the
\* classifier's verdict on the error of the last attempt made.
C7_LastVerdictCarried ==
  \A i \in Invocations :
    retryOutcome[i].kind = "threw" =>
      /\ Len(log[i]) >= 1
      /\ Len(log[i]) = Len(requests[i])
      /\ retryOutcome[i].error.executed = Verdict(i, Len(log[i]))

C7_Witness ==
  \E i \in Invocations :
    /\ retryOutcome[i].kind = "threw"
    /\ Len(log[i]) \in 2..(MAX_ATTEMPTS - 1)
    /\ Verdict(i, 1) = "executed"
    /\ Verdict(i, Len(log[i])) = "unknown"
    /\ retryOutcome[i].error.executed = "unknown"

\* C8: in cmdWithRetryAndDecode, once the transport call has succeeded and
\* the decoder has rejected the result, the invocation is over: the
\* successful call stays the last transport call, no delay follows it, the
\* decoder ran once, and the error raised is tagged executed = true.
C8_DecodeFailureTerminal ==
  \A i \in Invocations :
    ( /\ retryOutcome[i].kind = "returned"
      /\ iotsDecode(decoder[i], retryOutcome[i].value).kind = "threw" ) =>
      /\ pc[i] = "done"
      /\ Len(requests[i]) = Len(log[i]) + 1
      /\ Len(delays[i]) = Len(log[i])
      /\ decodes[i] = 1
      /\ decodeOutcome[i].kind = "threw"
      /\ decodeOutcome[i].error.name = "DecodeError"
      /\ decodeOutcome[i].error.executed = "executed"

C8_Witness ==
  \E i \in Invocations :
    /\ api[i] = "sendRawTransaction"
    /\ Len(requests[i]) = 2
    /\ retryOutcome[i].kind = "returned"
    /\ retryOutcome[i].value.type # decoder[i]
    /\ outcome[i].kind = "threw"
    /\ outcome[i].error.executed = "executed"

\* C9: isReady never raises: it resolves with false whenever the call it
\* makes rejected (a terminal transport error or a decode error, with
\* options.ancient true or not), and with true only when that call's
\* transport call succeeded and its result decoded.
C9_IsReadyNeverRaises ==
  \A i \in Invocations :
    api[i] = "isReady" =>
      /\ outcome[i].kind # "threw"
      /\ pc[i] = "done" =>
           /\ outcome[i].kind = "returned"
           /\ outcome[i].value \in {True, False}
           /\ outcome[i].value = True <=>
                /\ retryOutcome[i].kind = "returned"
                /\ iotsDecode(decoder[i], retryOutcome[i].value).kind = "returned"
           /\ decodeOutcome[i].kind = "threw" => outcome[i].value = False

C9_Witness ==
  \E i \in Invocations :
    /\ api[i] = "isReady"
    /\ options.ancient = "true"
    /\ method[i] = "getinfo"
    /\ retryOutcome[i].kind = "threw"
    /\ outcome[i] = Returned(False)

\* C10: cmdWithRetry raises a terminal error at attempt n exactly when the
\* transport call of attempt n failed and n = maxAttempts or the retry
\* decision (shouldRetry) for that failure is false; a failed attempt
\* n < maxAttempts with a true retry decision raises nothing and is followed
\* by attempt n + 1.
C10_TerminalIffExhaustedOrForbidden ==
  \A i \in Invocations :
    /\ \A k \in 1..Len(log[i]) :
         IF k = MAX_ATTEMPTS \/ ~Failure(i, k).shouldRetry
           THEN FailedAt(i, k) /\ k = Len(log[i])
           ELSE /\ ~(retryOutcome[i].kind = "threw" /\
                     retryOutcome[i].error.data.attempts = k)
                /\ AbsorbedAt(i, k)
    /\ retryOutcome[i].kind = "threw" =>
         /\ retryOutcome[i].error.data.attempts = Len(log[i])
         /\ Len(log[i]) >= 1
         /\ Failure(i, Len(log[i])).attemptN = Len(log[i])
         /\ outcome[i].kind # "pending"

C10_Witness ==
  \E i \in Invocations :
    /\ Len(log[i]) = 3
    /\ Failure(i, 1).shouldRetry
    /\ Failure(i, 2).shouldRetry
    /\ ~Failure(i, 3).shouldRetry
    /\ FailedAt(i, 3)
    /\ outcome[i].kind = "threw"

\* C11: success is terminal: when the transport call of attempt n returns a
\* result, for any n in 1..maxAttempts and any method, cmdWithRetry resolves
\* with exactly that result, the catch block (classifier, retry policy) does
\* not run for attempt n, and no transport call or delay follows.
C11_SuccessIsTerminal ==
  \A i \in Invocations :
    response[i] # Undefined =>
      /\ pc[i] = "done"
      /\ retryOutcome[i].kind = "returned"
      /\ retryOutcome[i].value = response[i]
      /\ retryOutcome[i].error = NoError
      /\ Len(requests[i]) = attemptN[i]
      /\ Len(log[i]) = attemptN[i] - 1
      /\ \A k \in 1..Len(log[i]) : Failure(i, k).attemptN < attemptN[i]
      /\ Len(delays[i]) = attemptN[i] - 1

C11_Witness ==
  \E i \in Invocations :
    /\ methodIsPure[i]
    /\ attemptN[i] = MAX_ATTEMPTS
    /\ response[i] \in Results
    /\ retryOutcome[i] = Returned(response[i])
    /\ Len(requests[i]) = MAX_ATTEMPTS

\* C12: for a pure method the retry decision after a failed attempt is the
\* retry policy's verdict on the error, whatever the classifier's verdict:
\* a non-retryable error fails the invocation at that attempt, a retryable
\* one below maxAttempts is followed by the next attempt.
C12_PureFollowsPolicyOnly ==
  \A i \in Invocations :
    methodIsPure[i] =>
      \A k \in 1..Len(log[i]) :
        /\ Failure(i, k).shouldRetry = Transient(i, k)
        /\ ~Transient(i, k) => FailedAt(i, k) /\ k = Len(log[i])
        /\ (Transient(i, k) /\ k < MAX_ATTEMPTS) => AbsorbedAt(i, k)

C12_Witness ==
  \E i \in Invocations :
    /\ methodIsPure[i]
    /\ Len(log[i]) = 4
    /\ Verdict(i, 1) = "executed"
    /\ Verdict(i, 2) = "unknown"
    /\ Verdict(i, 3) = "not-executed"
    /\ Verdict(i, 4) = "executed"
    /\ ~Transient(i, 4)
    /\ FailedAt(i, 4)

\* What is left of invocation i: suspensions it may still go through.
Rank(i) ==
  CASE pc[i] = "done" -> 0
    [] pc[i] = "delay" -> 2 * (MAX_ATTEMPTS - attemptN[i]) + 1
    [] pc[i] = "transport" -> 2 * (MAX_ATTEMPTS - attemptN[i]) + 2
    [] OTHER -> 2 * MAX_ATTEMPTS + 1

\* Everything invocation i owns.
Own(i) ==
  <<pc[i], api[i], args[i], decoder[i], method[i], params[i], methodIsPure[i],
    attemptN[i], requests[i], delays[i], log[i], response[i], retryOutcome[i],
    decodes[i], decodeOutcome[i], outcome[i]>>

\* cmdWithRetry is in a terminal state: Succeeded or Failed.
Settled(i) == pc[i] = "done" /\ retryOutcome[i].kind \in {"returned", "threw"}

\* C13: every invocation of cmdWithRetry terminates: with every transport
\* call eventually settled and every delay eventually elapsed, a started
\* invocation reaches Succeeded or Failed; every step it takes brings it
\* closer, and once it is there it takes no further step.
C13_Terminates ==
  /\ \A i \in Single : (pc[i] \in {"transport", "delay"}) ~> Settled(i)
  /\ [][\A i \in Single :
          \/ Own(i)' = Own(i)
          \/ Rank(i)' < Rank(i) /\ Rank(i)' >= 0]_vars

C13_Witness ==
  \E i \in Single :
    /\ Settled(i)
    /\ retryOutcome[i].kind = "threw"
    /\ Len(requests[i]) = MAX_ATTEMPTS
    /\ Len(delays[i]) = MAX_ATTEMPTS - 1

\* The cmdWithRetryAndDecode call invocation i's own operation and arguments
\* stand for.
OwnCall(i) ==
  CASE api[i] = "sendRawTransaction" -> sendRawTransaction(args[i][1])
    [] api[i] = "sendToAddress" -> sendToAddress(args[i][1], args[i][2], args[i][3])
    [] api[i] = "getBlockchainInfo" -> getBlockchainInfo
    [] api[i] = "ancientGetInfo" -> ancientGetInfo
    [] OTHER -> isReadyCall

\* The retry decision for failed attempt k of invocation i, from its own
\* method and the error of its own attempt k.
OwnDecision(i, k) ==
  LET m == OwnCall(i).method
      e == Failure(i, k).error
  IN ((m \in PURE_METHODS) \/ getWasExecutedFromError(m, e) = "not-executed")
       /\ getShouldRetry(m, e)

\* The terminal error of invocation i when its last attempt failed, from its
\* own method, parameters and the error of that attempt.
OwnTerminalError(i) ==
  LET c == OwnCall(i)
      e == Last(log[i]).error
  IN [name |-> "PeercoinRPCError", cause |-> e,
      executed |-> getWasExecutedFromError(c.method, e),
      data |-> [method |-> c.method, params |-> c.params,
                methodIsPure |-> c.method \in PURE_METHODS,
                maxAttempts |-> MAX_ATTEMPTS, attempts |-> Len(log[i])]]

\* C14: concurrent invocations share no mutable state: under every
\* interleaving of two invocations on one client, each invocation's attempt
\* counter, retry decisions, attempt bound and terminal error are what its
\* own operation, arguments and transport outcomes determine.
C14_InvocationsIndependent ==
  \A i \in Invocations :
    pc[i] # "idle" =>
      /\ Len(requests[i]) = attemptN[i]
      /\ attemptN[i] \in 1..MAX_ATTEMPTS
      /\ \A n \in 1..Len(requests[i]) :
           requests[i][n] = [method |-> OwnCall(i).method, params |-> OwnCall(i).params]
      /\ Len(log[i]) =
           IF pc[i] = "transport" \/ response[i] # Undefined
             THEN attemptN[i] - 1 ELSE attemptN[i]
      /\ \A k \in 1..Len(log[i]) :
           /\ Failure(i, k).attemptN = k
           /\ Failure(i, k).shouldRetry = OwnDecision(i, k)
           /\ k < Len(log[i]) => OwnDecision(i, k)
      /\ pc[i] = "delay" => OwnDecision(i, Len(log[i]))
      /\ IF pc[i] = "done" /\ response[i] = Undefined
           THEN /\ retryOutcome[i] = Threw(OwnTerminalError(i))
                /\ Len(log[i]) = MAX_ATTEMPTS \/ ~OwnDecision(i, Len(log[i]))
           ELSE retryOutcome[i].kind # "threw"

C14_Witness ==
  \E i, j \in Invocations :
    /\ i # j
    /\ api[i] = "sendRawTransaction" /\ api[j] = "sendRawTransaction"
    /\ args[i] = args[j]
    /\ pc[i] = "done" /\ retryOutcome[i].kind = "threw"
    /\ retryOutcome[i].error.data.attempts = 2
    /\ pc[j] = "delay" /\ attemptN[j] = 4

\* C15: delays occur only between consecutive transport attempts: none
\* before attempt 1, exactly one of 5000 ms, whatever the attempt number,
\* before each attempt n + 1, and none after the last attempt (success,
\* exhaustion or forbidden retry); so a finished invocation has started as
\* many delays as it made transport calls, minus one.
C15_DelaysOnlyBetweenAttempts ==
  \A i \in Invocations :
    /\ \A d \in 1..Len(delays[i]) : delays[i][d] = DELAY_BETWEEN_ATTEMPTS
    /\ pc[i] = "idle" => Len(delays[i]) = 0
    /\ pc[i] = "transport" => Len(delays[i]) = Len(requests[i]) - 1
    /\ pc[i] = "delay" =>
         /\ Len(delays[i]) = Len(requests[i])
         /\ Len(requests[i]) < MAX_ATTEMPTS
    /\ pc[i] = "done" => Len(delays[i]) = Len(requests[i]) - 1

C15_Witness ==
  \E i \in Invocations :
    /\ pc[i] = "done"
    /\ retryOutcome[i].kind = "threw"
    /\ Len(requests[i]) = 3
    /\ delays[i] = <<DELAY_BETWEEN_ATTEMPTS, DELAY_BETWEEN_ATTEMPTS>>

\* C16: whenever cmdWithRetry fails, the attempts field of its terminal
\* error is the number of transport calls the invocation made and lies in
\* 1..maxAttempts; attempt numbers run 1, 2, 3, ... without a gap, attempt
\* n + 1 starting only from a failed attempt n.
C16_AttemptsFieldCountsCalls ==
  \A i \in Invocations :
    /\ retryOutcome[i].kind = "threw" =>
         /\ retryOutcome[i].error.data.attempts = Len(requests[i])
         /\ retryOutcome[i].error.data.attempts \in 1..MAX_ATTEMPTS
    /\ \A k \in 1..Len(log[i]) : Failure(i, k).attemptN = k
    /\ attemptN[i] = Len(requests[i])
    /\ attemptN[i] >= 2 =>
         /\ Len(log[i]) >= attemptN[i] - 1
         /\ Failure(i, attemptN[i] - 1).shouldRetry

C16_Witness ==
  \E i \in Invocations :
    /\ retryOutcome[i].kind = "threw"
    /\ Len(requests[i]) = 4
    /\ retryOutcome[i].error.data.attempts = 4
    /\ \A k \in 1..4 : Failure(i, k).attemptN = k

\* C17: the terminal error cmdWithRetry raises wraps the transport error of
\* the last attempt, and the method, parameters, purity flag and maxAttempts
\* of its diagnostic bundle are those of the invocation, the ones every
\* attempt of the invocation was made with.
C17_TerminalErrorWrapsLastError ==
  \A i \in Invocations :
    /\ \A n \in 1..Len(requests[i]) :
         requests[i][n] = [method |-> OwnCall(i).method, params |-> OwnCall(i).params]
    /\ retryOutcome[i].kind = "threw" =>
         /\ retryOutcome[i].error.cause = Last(log[i]).error
         /\ retryOutcome[i].error.data.method = OwnCall(i).method
         /\ retryOutcome[i].error.data.params = OwnCall(i).params
         /\ retryOutcome[i].error.data.methodIsPure = (OwnCall(i).method \in PURE_METHODS)
         /\ retryOutcome[i].error.data.maxAttempts = MAX_ATTEMPTS

C17_Witness ==
  \E i \in Invocations :
    /\ api[i] = "sendToAddress"
    /\ Len(params[i]) = 6
    /\ retryOutcome[i].kind = "threw"
    /\ Len(log[i]) = 3
    /\ Failure(i, 1).error # Failure(i, 3).error
    /\ retryOutcome[i].error.cause = Failure(i, 3).error

\* The optional parameters of sendToAddress as a sequence, and the defaults
\* of the first three.
OptionalsInOrder(o) == <<o.comment, o.commentTo, o.subtractFeeFromAmount, o.replaceable>>

OptionalDefaults == <<"", "", "false", Unsupplied>>

\* Position of the last optional argument supplied, 0 when none is.
LastSupplied(o) ==
  LET supplied == {j \in 1..4 : OptionalsInOrder(o)[j] # Unsupplied}
  IN IF supplied = {} THEN 0 ELSE CHOOSE j \in supplied : \A k \in supplied : k <= j

\* C18: sendToAddress sends [address, amount] followed by the optional
\* arguments up to and including the last one supplied, the unsupplied ones
\* before it defaulted ('' for comment and commentTo, false for
\* subtractFeeFromAmount): comment alone is sent as the third parameter, and
\* with no optional argument exactly [address, amount] is sent.
C18_SendToAddressSendsUpToLastSupplied ==
  \A i \in Invocations :
    (api[i] = "sendToAddress" /\ Len(requests[i]) >= 1) =>
      LET o == args[i][3] IN
      requests[i][1].params =
        <<args[i][1], args[i][2]>> \o
          [j \in 1..LastSupplied(o) |->
             Coalesce(OptionalsInOrder(o)[j], OptionalDefaults[j])]

\* C19: in cmdWithRetryAndDecode the decoder runs at most once per
\* invocation and only after cmdWithRetry succeeded; when cmdWithRetry fails
\* the decoder never runs and cmdWithRetryAndDecode rejects with the
\* terminal error as it is, its execution-state verdict (executed,
\* not-executed or unknown) not overwritten by executed = true.
C19_DecoderOnlyAfterSuccess ==
  \A i \in Invocations :
    /\ decodes[i] <= 1
    /\ decodes[i] = 1 <=> retryOutcome[i].kind = "returned"
    /\ retryOutcome[i].kind = "threw" =>
         /\ decodes[i] = 0
         /\ decodeOutcome[i] = retryOutcome[i]
         /\ decodeOutcome[i].error.executed = Verdict(i, Len(log[i]))
         /\ api[i] # "isReady" => outcome[i] = retryOutcome[i]

C19_Witness ==
  \E i \in Invocations :
    /\ api[i] = "getBlockchainInfo"
    /\ Len(log[i]) = MAX_ATTEMPTS
    /\ decodes[i] = 0
    /\ outcome[i].kind = "threw"
    /\ outcome[i].error.name = "PeercoinRPCError"
    /\ outcome[i].error.executed = "not-executed"

\* C20: isReady goes through the whole retry pipeline: with a pure probe
\* method and every transport call failing with a retryable error it makes
\* maxAttempts (5) transport calls and starts maxAttempts - 1 (4) delays
\* before it resolves with false; when a transport call fails with a
\* non-retryable error it resolves with false after that attempt, with no
\* further call.
C20_IsReadyRetriesLikeAnyCall ==
  \A i \in Invocations :
    api[i] = "isReady" =>
      /\ ( /\ methodIsPure[i]
           /\ pc[i] = "done"
           /\ response[i] = Undefined
           /\ \A k \in 1..Len(log[i]) : Transient(i, k) ) =>
           /\ Len(requests[i]) = MAX_ATTEMPTS
           /\ Len(delays[i]) = MAX_ATTEMPTS - 1
           /\ outcome[i] = Returned(False)
      /\ \A k \in 1..Len(log[i]) :
           ~Transient(i, k) =>
             /\ pc[i] = "done"
             /\ Len(requests[i]) = k
             /\ Len(delays[i]) = k - 1
             /\ outcome[i] = Returned(False)
      /\ outcome[i].kind = "pending" <=> pc[i] # "done"

C20_Witness ==
  \E i \in Invocations :
    /\ api[i] = "isReady"
    /\ method[i] = "getblockchaininfo"
    /\ methodIsPure[i]
    /\ Len(requests[i]) = MAX_ATTEMPTS
    /\ Len(delays[i]) = MAX_ATTEMPTS - 1
    /\ Len(log[i]) = MAX_ATTEMPTS
    /\ \A k \in 1..Len(log[i]) : Transient(i, k)
    /\ outcome[i] = Returned(False)

====
